---- MODULE Spec2Model ----
(***************************************************************************)
(* Used Car Search (main.py): the loader/cleaner prepare_data, the filter  *)
(* pipeline run at module level, the ranked result list and the            *)
(* per-manufacturer cheapest-price-by-year series.                         *)
(*                                                                         *)
(* Text is a sequence of one-character strings, so that str.lower and      *)
(* str.capitalize act on it as they do in Python.  A cell of a dataframe   *)
(* is a record: a number, a text, or NaN (a missing value).                *)
(***************************************************************************)
EXTENDS Integers, Sequences, FiniteSets, TLC

VARIABLES raw, cache, df, pc, price, manufacturers, paint_colors,
          transmission, drive_type, texts, graphs, again, rng

vars == <<raw, cache, df, pc, price, manufacturers, paint_colors,
          transmission, drive_type, texts, graphs, again, rng>>

----------------------------------------------------------------------------
(* Bounds of the model.                                                    *)

\* rows of an input file
MaxRows == 2
\* rows of an input file of the loader's own specification
MaxRawRows == 3
\* rows that follow the first 50 in an input file of more than 50 rows
MaxTailRows == 2
\* largest position of the price slider that is drawn, besides its maximum
MaxSlider == 1
\* rows and largest price of the range filter's inputs; its bounds are
\* drawn from 0 to one more than the largest price
MaxRangeRows == 3
MaxValue == 2

----------------------------------------------------------------------------
(* Text.                                                                   *)

UPPER == <<"A","B","C","D","E","F","G","H","I","J","K","L","M",
           "N","O","P","Q","R","S","T","U","V","W","X","Y","Z">>
LOWER == <<"a","b","c","d","e","f","g","h","i","j","k","l","m",
           "n","o","p","q","r","s","t","u","v","w","x","y","z">>
DIGITS == <<"0","1","2","3","4","5","6","7","8","9">>

Range(s) == {s[i] : i \in DOMAIN s}

ToLower == [c \in Range(UPPER) |-> LOWER[CHOOSE i \in DOMAIN UPPER : UPPER[i] = c]]
ToUpper == [c \in Range(LOWER) |-> UPPER[CHOOSE i \in DOMAIN LOWER : LOWER[i] = c]]

lower_char(c) == IF c \in DOMAIN ToLower THEN ToLower[c] ELSE c
upper_char(c) == IF c \in DOMAIN ToUpper THEN ToUpper[c] ELSE c

\* str.lower()
lower(w) == [i \in DOMAIN w |-> lower_char(w[i])]

\* str.capitalize(): first character upper case, the rest lower case
capitalize(w) ==
    [i \in DOMAIN w |-> IF i = 1 THEN upper_char(w[i]) ELSE lower_char(w[i])]

\* capitalize_input_choices over the distinct values of a column
capitalize_input_choices(choices) == {capitalize(item) : item \in choices}

----------------------------------------------------------------------------
(* Cells.                                                                  *)

NaN == [kind |-> "nan", num |-> 0, str |-> <<>>]
Num(n) == [kind |-> "num", num |-> n, str |-> <<>>]
Str(w) == [kind |-> "str", num |-> 0, str |-> w]

notna(c) == c.kind # "nan"

\* ==, >= and <= of pandas on two cells: NaN compares false with everything
cell_eq(a, b) == notna(a) /\ notna(b) /\ a = b
cell_ge(a, n) == a.kind = "num" /\ a.num >= n
cell_le(a, n) == a.kind = "num" /\ a.num <= n

\* The decimal value of a field of the file.  The fields drawn here are
\* digits, optionally followed by a point and zeros.
IsDigits(w) == Len(w) > 0 /\ \A i \in DOMAIN w : w[i] \in Range(DIGITS)
DigitVal(c) == (CHOOSE i \in DOMAIN DIGITS : DIGITS[i] = c) - 1
RECURSIVE DigitsVal(_)
DigitsVal(w) ==
    IF w = <<>> THEN 0
    ELSE 10 * DigitsVal(SubSeq(w, 1, Len(w) - 1)) + DigitVal(w[Len(w)])
PointAt(w) == {i \in DOMAIN w : w[i] = "."}
IsNumeric(w) ==
    \/ IsDigits(w)
    \/ /\ Cardinality(PointAt(w)) = 1
       /\ LET p == CHOOSE i \in PointAt(w) : TRUE
          IN  /\ IsDigits(SubSeq(w, 1, p - 1))
              /\ \A i \in (p + 1)..Len(w) : w[i] = "0"
NumericVal(w) ==
    IF IsDigits(w) THEN DigitsVal(w)
    ELSE DigitsVal(SubSeq(w, 1, (CHOOSE i \in PointAt(w) : TRUE) - 1))

----------------------------------------------------------------------------
(* The loader.                                                             *)

RAW_COLUMNS == {"price", "model", "manufacturer", "paint_color",
                "transmission", "drive", "year", "lat", "long"}

cols_to_drop_nan == <<"price", "model", "manufacturer", "paint_color",
                      "transmission", "drive", "lat", "long">>

\* pd.read_csv: an empty field is NaN; a column whose fields are all
\* numeric is read as numbers, any other column is kept as text
read_csv(file) ==
    LET numeric(c) ==
            \A i \in DOMAIN file : file[i][c] = <<>> \/ IsNumeric(file[i][c])
        cell(c, w) ==
            IF w = <<>> THEN NaN
            ELSE IF numeric(c) THEN Num(NumericVal(w)) ELSE Str(w)
    IN  [columns |-> RAW_COLUMNS,
         rows |-> [i \in DOMAIN file |->
                      [c \in RAW_COLUMNS |-> cell(c, file[i][c])]]]

\* df[df[column].notna()]
drop_nan(rows, column) == SelectSeq(rows, LAMBDA r : notna(r[column]))

RECURSIVE drop_nan_all(_, _)
drop_nan_all(rows, columns) ==
    IF columns = <<>> THEN rows
    ELSE drop_nan_all(drop_nan(rows, Head(columns)), Tail(columns))

\* the rows at the positions of a set, in their order
Nth(positions, k) ==
    CHOOSE i \in positions : Cardinality({j \in positions : j <= i}) = k
Pick(rows, positions) ==
    [k \in 1..Cardinality(positions) |-> rows[Nth(positions, k)]]

\* DataFrame.drop_duplicates: the first of each group of equal rows is kept
drop_duplicates(rows) ==
    Pick(rows, {i \in DOMAIN rows : \A j \in 1..(i - 1) : rows[j] # rows[i]})

\* DataFrame.rename(columns={old: new}): a column that is absent is ignored
rename_column(name, old, new) == IF name = old THEN new ELSE name
rename(t, old, new) ==
    LET cols == {rename_column(c, old, new) : c \in t.columns}
        back(c) == IF c = new /\ old \in t.columns THEN old ELSE c
    IN  [columns |-> cols,
         rows |-> [i \in DOMAIN t.rows |-> [c \in cols |-> t.rows[i][back(c)]]]]

\* pd.to_numeric on one cell (errors="raise")
parses(c) == c.kind # "str" \/ IsNumeric(c.str)
to_numeric(c) == IF c.kind = "str" THEN Num(NumericVal(c.str)) ELSE c

Failed(e) == [err |-> e, columns |-> {}, rows |-> <<>>]

\* The body of prepare_data after read_csv, on a dataframe t.
clean(t) ==
    IF \E i \in DOMAIN cols_to_drop_nan : cols_to_drop_nan[i] \notin t.columns
    THEN Failed("KeyError")
    ELSE
    LET kept == drop_duplicates(drop_nan_all(t.rows, cols_to_drop_nan))
        r == rename([columns |-> t.columns, rows |-> kept], "long", "lon")
    IN  IF \E i \in DOMAIN r.rows : ~parses(r.rows[i]["lat"])
        THEN Failed("ValueError")
        ELSE IF "lon" \notin r.columns THEN Failed("KeyError")
        ELSE IF \E i \in DOMAIN r.rows : ~parses(r.rows[i]["lon"])
        THEN Failed("ValueError")
        ELSE [err |-> "", columns |-> r.columns,
              rows |-> [i \in DOMAIN r.rows |->
                  [c \in r.columns |->
                      IF c \in {"lat", "lon"} THEN to_numeric(r.rows[i][c])
                      ELSE r.rows[i][c]]]]

prepare_data(file) == clean(read_csv(file))

----------------------------------------------------------------------------
(* The filter pipeline.                                                    *)

SLIDER_MAX == 300000
HEAD_ROWS == 50

\* DataFrame.head(n)
head(rows, n) == SubSeq(rows, 1, IF Len(rows) < n THEN Len(rows) ELSE n)

Max(S) == CHOOSE x \in S : \A y \in S : x >= y
Remove(s, i) == SubSeq(s, 1, i - 1) \o SubSeq(s, i + 1, Len(s))

\* the orders in which rows with equal keys may come out
RECURSIVE any_order(_)
any_order(rows) ==
    IF rows = <<>> THEN {<<>>}
    ELSE UNION {{<<rows[i]>> \o rest : rest \in any_order(Remove(rows, i))} :
                   i \in DOMAIN rows}

\* sort_values(by=[column], ascending=False): the possible results.  The
\* default sort (quicksort) is not stable: rows with equal keys may come out
\* in any order.  The column holds numbers only when this is called.  The
\* rows with the larger keys, sorted, come before those with the smaller.
RECURSIVE sort_values(_, _)
sort_values(rows, column) ==
    LET keys == {rows[i][column].num : i \in DOMAIN rows}
        mid == CHOOSE k \in keys :
                   Cardinality({x \in keys : x > k}) = Cardinality(keys) \div 2
    IN  IF Cardinality(keys) <= 1 THEN any_order(rows)
        ELSE {high \o low :
                 high \in sort_values(SelectSeq(rows, LAMBDA r : r[column].num > mid),
                                      column),
                 low \in sort_values(SelectSeq(rows, LAMBDA r : r[column].num <= mid),
                                     column)}

\* a variant of in_range that leaves out the upper bound
in_range_open(r, column, min, max) ==
    cell_ge(r[column], min) /\ cell_le(r[column], max - 1)
\* (df[column] >= min) & (df[column] <= max)
in_range(r, column, min, max) == cell_ge(r[column], min) /\ cell_le(r[column], max)
\* a variant of filter_by_column_range that swaps bounds given in reverse
filter_by_column_range_swapping(max, rows, column, min) ==
    LET lo == IF min <= max THEN min ELSE max
        hi == IF min <= max THEN max ELSE min
    IN  sort_values(SelectSeq(rows, LAMBDA r : in_range(r, column, lo, hi)), column)
\* filter_by_column_range(max, df, column, min): the possible results
filter_by_column_range(max, rows, column, min) ==
    sort_values(SelectSeq(rows, LAMBDA r : in_range(r, column, min, max)), column)

\* filter_by_column_val(df, column, val)
filter_by_column_val(rows, column, val) ==
    SelectSeq(rows, LAMBDA r : cell_eq(r[column], val))

\* df.query("column == 'a' | column == 'b' ..."), one term per choice,
\* each choice lower-cased
query(rows, column, choices) ==
    LET terms == {Str(lower(choice)) : choice \in choices}
    IN  SelectSeq(rows, LAMBDA r : \E term \in terms : cell_eq(r[column], term))

\* a variant of filter_manufacturers without the test "if manufacturers"
filter_manufacturers_unguarded(rows, chosen) == query(rows, "manufacturer", chosen)
\* if manufacturers: ... df = df.query(query_string)
filter_manufacturers(rows, chosen) ==
    IF chosen = {} THEN rows ELSE query(rows, "manufacturer", chosen)

\* if paint_colors: ... df = df.query(query_string)
filter_paint_colors(rows, chosen) ==
    IF chosen = {} THEN rows ELSE query(rows, "paint_color", chosen)

\* a variant of filter_drive that keeps the first matching row only
filter_drive_first(rows, choice) ==
    head(SelectSeq(rows, LAMBDA r : cell_eq(r["drive"], Str(lower(choice)))), 1)
\* if drive_type: df = df[df["drive"] == drive_type.lower()]
filter_drive(rows, choice) ==
    IF choice = <<>> THEN rows
    ELSE LET val == Str(lower(choice))
         IN  SelectSeq(rows, LAMBDA r : cell_eq(r["drive"], val))

\* if transmission: df = df[df["transmission"] == transmission.lower()]
filter_transmission(rows, choice) ==
    IF choice = <<>> THEN rows
    ELSE LET val == Str(lower(choice))
         IN  SelectSeq(rows, LAMBDA r : cell_eq(r["transmission"], val))

\* One filter of the pipeline on one dataframe: the possible results.
\* c holds the widgets' values.
filter_step(name, rows, c) ==
    CASE name = "price" ->
             filter_by_column_range(c.price[2], rows, "price", c.price[1])
      [] name = "manufacturer" -> {filter_manufacturers(rows, c.manufacturers)}
      [] name = "paint_color" -> {filter_paint_colors(rows, c.paint_colors)}
      [] name = "drive" -> {filter_drive(rows, c.drive_type)}
      [] name = "transmission" -> {filter_transmission(rows, c.transmission)}

\* The filters applied in a given order to each of a set of dataframes.
RECURSIVE filter_in_order(_, _, _)
filter_in_order(order, frames, c) ==
    IF order = <<>> THEN frames
    ELSE filter_in_order(Tail(order),
                         UNION {filter_step(Head(order), rows, c) : rows \in frames},
                         c)

\* the order of the module-level code
PIPELINE == <<"price", "manufacturer", "paint_color", "drive", "transmission">>

\* Series.unique(): the distinct values of a column, in order of first
\* appearance
unique(rows, column) ==
    LET firsts == {i \in DOMAIN rows :
                      \A j \in 1..(i - 1) : rows[j][column] # rows[i][column]}
    IN  [k \in 1..Cardinality(firsts) |-> rows[Nth(firsts, k)][column]]

\* the options of a dropdown: the column's distinct values, capitalized
options(rows, column) ==
    capitalize_input_choices({v.str : v \in Range(unique(rows, column))})

----------------------------------------------------------------------------
(* The result list and the charts.                                         *)

Min(S) == CHOOSE x \in S : \A y \in S : x <= y

\* The line of text of one row: the counter, the manufacturer, the model,
\* the year as an integer and the price.
label(i, row) ==
    [i |-> i,
     manufacturer |-> capitalize(row["manufacturer"].str),
     model |-> capitalize(row["model"].str),
     year |-> row["year"].num,
     price |-> row["price"].num]

\* int(row["year"]) raises ValueError on NaN
int_fails(row) == ~notna(row["year"])

\* The loop over df.head(50): i is set to 1 before the loop and is not
\* changed in it.  The lines written before a row whose year is missing.
result_list(rows) ==
    LET top == head(rows, HEAD_ROWS)
        bad == {k \in DOMAIN top : int_fails(top[k])}
        n == IF bad = {} THEN Len(top) ELSE Min(bad) - 1
    IN  [k \in 1..n |-> label(1, top[k])]

result_list_fails(rows) ==
    \E k \in DOMAIN head(rows, HEAD_ROWS) : int_fails(head(rows, HEAD_ROWS)[k])

\* Series.min(): the least number, NaN when there is none
series_min(cells) ==
    LET nums == {c.num : c \in {x \in cells : x.kind = "num"}}
    IN  IF nums = {} THEN NaN ELSE Num(Min(nums))

\* manufacturer_graph_data of one chosen manufacturer: for each distinct
\* year of its rows, the year and the least price of the rows of that year
graph_data(rows, manufacturer) ==
    LET man_df == SelectSeq(rows, LAMBDA r :
                      cell_eq(r["manufacturer"], Str(lower(manufacturer))))
        years == unique(man_df, "year")
        by_year(y) == SelectSeq(man_df, LAMBDA r : cell_eq(r["year"], y))
    IN  [k \in DOMAIN years |->
            [year |-> years[k],
             price |-> series_min({r["price"] : r \in Range(by_year(years[k]))})]]

\* df_for_data["year"].astype(int) raises ValueError on NaN
astype_int_fails(data) == \E k \in DOMAIN data : ~notna(data[k].year)

----------------------------------------------------------------------------
(* Inputs.                                                                 *)

Listing(p, ma, pa, tr, dr, ye, la, lo) ==
    [price |-> p, model |-> <<"g", "t">>, manufacturer |-> ma,
     paint_color |-> pa, transmission |-> tr, drive |-> dr, year |-> ye,
     lat |-> la, long |-> lo]

Reference ==
    Listing(<<"1">>, <<"f", "d">>, <<"r", "d">>, <<"a", "t">>, <<"f", "w">>,
            <<"1">>, <<"1">>, <<"2">>)

\* The rows of the input files of the whole program: the reference row and
\* the rows that differ from it in one field.
Listings ==
    {Reference,
     [Reference EXCEPT !.manufacturer = <<"b", "w">>],
     [Reference EXCEPT !.paint_color = <<"B", "L">>],
     [Reference EXCEPT !.transmission = <<"m", "n">>],
     [Reference EXCEPT !.drive = <<"r", "w">>],
     [Reference EXCEPT !.price = <<"2">>]}

\* The rows of the input files of the loader alone: a price, a paint colour
\* or a latitude may be missing, a latitude or longitude may not be a number.
RawListings ==
    {Listing(p, <<"f", "d">>, <<"r", "d">>, <<"a", "t">>, <<"f", "w">>, <<"1">>, la, lo) :
        p \in {<<>>, <<"1">>},
        la \in {<<>>, <<"1">>, <<"1", ".", "0">>, <<"x">>},
        lo \in {<<"2">>, <<"x">>}}

\* the decimal digits of a number
RECURSIVE Decimal(_)
Decimal(n) ==
    IF n < 10 THEN <<DIGITS[n + 1]>>
    ELSE Decimal(n \div 10) \o <<DIGITS[(n % 10) + 1]>>

\* As many rows as the result list shows, each dearer than any row of
\* TailListings and no two of the same price.
Dearest == [k \in 1..HEAD_ROWS |-> [Reference EXCEPT !.price = Decimal(k + 2)]]

\* The rows that follow them in an input file of more than 50 rows: the
\* year may be missing.
TailListings ==
    {Reference,
     [Reference EXCEPT !.manufacturer = <<"b", "w">>],
     [Reference EXCEPT !.year = <<"2">>],
     [Reference EXCEPT !.year = <<>>]}

SeqsUpTo(S, n) == UNION {[1..k -> S] : k \in 0..n}

\* The rows of the inputs of the range filter: numbers in both columns.
RangeRows ==
    {[price |-> Num(p), year |-> Num(y)] : p \in 0..MaxValue, y \in {1, 2}}

Empty == [err |-> "", columns |-> {}, rows |-> <<>>]
NoRange == [rows |-> <<>>, column |-> "", min |-> 0, max |-> 0, out |-> <<>>]

----------------------------------------------------------------------------
(* The program.                                                            *)

Start ==
    /\ cache = Empty
    /\ df = Empty
    /\ price = <<0, SLIDER_MAX>>
    /\ manufacturers = {}
    /\ paint_colors = {}
    /\ transmission = <<>>
    /\ drive_type = <<>>
    /\ texts = <<>>
    /\ graphs = <<>>
    /\ again = Empty

Init ==
    /\ raw \in SeqsUpTo(Listings, MaxRows)
    /\ pc = "load"
    /\ rng = NoRange
    /\ Start

\* df = prepare_data(DATA_FILE); st.cache keeps the value returned
PrepareData ==
    /\ pc = "load"
    /\ df' = prepare_data(raw)
    /\ cache' = df'
    /\ pc' = IF df'.err = "" THEN "widgets" ELSE "error"
    /\ UNCHANGED <<raw, price, manufacturers, paint_colors, transmission,
                   drive_type, texts, graphs, again, rng>>

SliderPositions == (0..MaxSlider) \cup {SLIDER_MAX}

\* a selectbox yields one of its options, None when it has none
selectbox(opts) == IF opts = {} THEN {<<>>} ELSE opts

\* The sidebar: the slider yields a pair min <= max, a multiselect a set of
\* its options, a selectbox one of its options.
Widgets ==
    /\ pc = "widgets"
    /\ \E lo, hi \in SliderPositions : lo <= hi /\ price' = <<lo, hi>>
    /\ manufacturers' \in SUBSET options(df.rows, "manufacturer")
    /\ paint_colors' \in SUBSET options(df.rows, "paint_color")
    /\ transmission' \in selectbox(options(df.rows, "transmission"))
    /\ drive_type' \in selectbox(options(df.rows, "drive"))
    /\ pc' = "filter"
    /\ UNCHANGED <<raw, cache, df, texts, graphs, again, rng>>

Criteria ==
    [price |-> price, manufacturers |-> manufacturers,
     paint_colors |-> paint_colors, transmission |-> transmission,
     drive_type |-> drive_type]

\* The filters of the module level, in the order of the code.  The slider's
\* value is a pair, so "if price:" always holds.
FilterPipeline ==
    /\ pc = "filter"
    /\ \E rows \in filter_in_order(PIPELINE, {df.rows}, Criteria) :
           df' = [df EXCEPT !.rows = rows]
    /\ pc' = "list"
    /\ UNCHANGED <<raw, cache, price, manufacturers, paint_colors, transmission,
                   drive_type, texts, graphs, again, rng>>

\* The left column: one line of text for each of the first 50 rows.  (The
\* mean price of line 150 is written to the sidebar and kept nowhere.)
ResultList ==
    /\ pc = "list"
    /\ texts' = result_list(df.rows)
    /\ pc' = IF result_list_fails(df.rows) THEN "error" ELSE "charts"
    /\ UNCHANGED <<raw, cache, df, price, manufacturers, paint_colors, transmission,
                   drive_type, graphs, again, rng>>

\* The right column: one pass of the loop over the chosen manufacturers, in
\* the order in which the user chose them.
Chart ==
    /\ pc = "charts"
    /\ \E manufacturer \in manufacturers \ DOMAIN graphs :
         LET data == graph_data(df.rows, manufacturer)
         IN  /\ graphs' = [m \in DOMAIN graphs \cup {manufacturer} |->
                              IF m = manufacturer THEN data ELSE graphs[m]]
             /\ pc' = IF astype_int_fails(data) THEN "error" ELSE "charts"
    /\ UNCHANGED <<raw, cache, df, price, manufacturers, paint_colors, transmission,
                   drive_type, texts, again, rng>>

Next == PrepareData \/ Widgets \/ FilterPipeline \/ ResultList \/ Chart

Spec == Init /\ [][Next]_vars

----------------------------------------------------------------------------
(* The program on input files of more than 50 rows.                        *)

InitManyRows ==
    /\ raw \in {Dearest \o tail : tail \in SeqsUpTo(TailListings, MaxTailRows)}
    /\ pc = "load"
    /\ rng = NoRange
    /\ Start

SpecManyRows == InitManyRows /\ [][Next]_vars

----------------------------------------------------------------------------
(* The loader alone, run on a file and then again on its own result.       *)

InitLoad ==
    /\ raw \in SeqsUpTo(RawListings, MaxRawRows)
    /\ pc = "load"
    /\ rng = NoRange
    /\ Start

\* the cleaning steps of prepare_data on the dataframe it returned
CleanAgain ==
    /\ pc = "widgets"
    /\ again' = clean(df)
    /\ pc' = "again"
    /\ UNCHANGED <<raw, cache, df, price, manufacturers, paint_colors, transmission,
                   drive_type, texts, graphs, rng>>

NextLoad == PrepareData \/ CleanAgain

SpecLoad == InitLoad /\ [][NextLoad]_vars

----------------------------------------------------------------------------
(* The range filter alone, on any numeric column and any pair of bounds.   *)

InitRange ==
    /\ raw = <<>>
    /\ pc = "range"
    /\ \E rows \in SeqsUpTo(RangeRows, MaxRangeRows), column \in {"price", "year"},
          min, max \in 0..(MaxValue + 1) :
           rng = [rows |-> rows, column |-> column, min |-> min, max |-> max,
                  out |-> <<>>]
    /\ Start

RangeCall ==
    /\ pc = "range"
    /\ \E out \in filter_by_column_range(rng.max, rng.rows, rng.column, rng.min) :
           rng' = [rng EXCEPT !.out = out]
    /\ pc' = "returned"
    /\ UNCHANGED <<raw, cache, df, price, manufacturers, paint_colors, transmission,
                   drive_type, texts, graphs, again>>

NextRange == RangeCall

SpecRange == InitRange /\ [][NextRange]_vars

----------------------------------------------------------------------------
(* Properties.                                                             *)

\* the canonical table: what the loader returned for the input file
Canonical == cache

\* the filter pipeline has run
Filtered == pc \in {"list", "charts"}

\* a stored text is the one a choice of a dropdown names, whatever the case
names(cell, choice) == cell.kind = "str" /\ lower(cell.str) = lower(choice)

Satisfies(r) ==
    /\ r["price"].kind = "num"
    /\ price[1] <= r["price"].num
    /\ r["price"].num <= price[2]
    /\ manufacturers # {} => \E m \in manufacturers : names(r["manufacturer"], m)
    /\ paint_colors # {} => \E p \in paint_colors : names(r["paint_color"], p)
    /\ transmission # <<>> => names(r["transmission"], transmission)
    /\ drive_type # <<>> => names(r["drive"], drive_type)

\* C1: the filtered view holds exactly the rows of the canonical table that
\* satisfy every active dimension: the price within the bounds, the
\* manufacturer among the chosen ones (if any), the paint colour among the
\* chosen ones (if any), the transmission and the drive the chosen ones.
C1_ViewIsExactlyTheMatchingRows ==
    Filtered => Range(df.rows) = {r \in Range(Canonical.rows) : Satisfies(r)}

Without(order, name) == SelectSeq(order, LAMBDA n : n # name)

\* C2: a set filter with an empty selection returns the table it was given,
\* and with no manufacturer (no paint colour) chosen the filtered view is a
\* view that the other filters alone produce.
C2_EmptySelectionIsIdentity ==
    /\ filter_manufacturers(df.rows, {}) = df.rows
    /\ filter_paint_colors(df.rows, {}) = df.rows
    /\ Filtered /\ manufacturers = {} =>
           df.rows \in filter_in_order(Without(PIPELINE, "manufacturer"),
                                       {Canonical.rows}, Criteria)
    /\ Filtered /\ paint_colors = {} =>
           df.rows \in filter_in_order(Without(PIPELINE, "paint_color"),
                                       {Canonical.rows}, Criteria)

C2_Witness ==
    /\ Filtered
    /\ manufacturers = {}
    /\ paint_colors # {}
    /\ df.rows # <<>>
    /\ Len(df.rows) < Len(Canonical.rows)

IsSortedDescending(rows, column) ==
    \A i, j \in DOMAIN rows : i < j => rows[i][column].num >= rows[j][column].num

\* The sets of filters are numbered from 0: filter i of PIPELINE is in set k
\* when bit i - 1 of k is 1.
InSet(i, k) == (k \div (2 ^ (i - 1))) % 2 = 1
AllFilters == 2 ^ Len(PIPELINE) - 1

\* The dataframes that the filters of a set give when they are applied to
\* the table in any order: the last filter applied is any filter of the set,
\* applied to what the others give in any order.  known[k + 1] holds them
\* for set k; the sets are filled in by increasing number.
RECURSIVE in_any_order(_, _, _)
in_any_order(known, table, c) ==
    LET k == Len(known)
        after(i) == UNION {filter_step(PIPELINE[i], rows, c) :
                              rows \in known[k - 2 ^ (i - 1) + 1]}
        frames == IF k = 0 THEN {table}
                  ELSE UNION {after(i) : i \in {j \in DOMAIN PIPELINE : InSet(j, k)}}
    IN  IF k > AllFilters THEN known[AllFilters + 1]
        ELSE in_any_order(Append(known, frames), table, c)

\* C3: the five filters applied to the canonical table in any order give the
\* rows that the order of the code gives, sorted by price descending.
C3_AnyOrderSameView ==
    pc = "list" =>
        \A rows \in in_any_order(<<>>, Canonical.rows, Criteria) :
            /\ Range(rows) = Range(df.rows)
            /\ Len(rows) = Len(df.rows)
            /\ IsSortedDescending(rows, "price")

C3_Witness ==
    /\ pc = "list"
    /\ Len(Canonical.rows) = MaxRows
    /\ Len(df.rows) = 1
    /\ manufacturers # {}
    /\ paint_colors # {}

Count(rows, r) == Cardinality({i \in DOMAIN rows : rows[i] = r})

C6_CleaningIsIdempotent == pc = "again" => again = df

Malformed(row) ==
    \/ row.lat # <<>> /\ ~IsNumeric(row.lat)
    \/ row.long # <<>> /\ ~IsNumeric(row.long)

\* C7: for an input with a row whose latitude or longitude is not a number
\* the load does not raise: it returns the table of the input without the
\* malformed rows.
C7_MalformedRowsAreExcluded ==
    pc # "load" /\ (\E i \in DOMAIN raw : Malformed(raw[i])) =>
        /\ df.err = ""
        /\ df = prepare_data(SelectSeq(raw, LAMBDA row : ~Malformed(row)))

\* C8: no two rows of the table the loader returns are equal in every column.
C8_NoTwoRowsIdentical ==
    pc # "load" /\ df.err = "" =>
        \A i, j \in DOMAIN df.rows : i # j => df.rows[i] # df.rows[j]

\* C9: the series of a chosen manufacturer holds one pair for each distinct
\* year among that manufacturer's rows of the filtered view and no other
\* pair, the price of a pair being the least price of the rows of that year.
C9_SeriesIsMinPricePerYear ==
    \A m \in DOMAIN graphs :
        LET own == {r \in Range(df.rows) : names(r["manufacturer"], m)}
            years == {r["year"] : r \in own}
            least(y) == Num(Min({r["price"].num : r \in {x \in own : x["year"] = y}}))
        IN  /\ Len(graphs[m]) = Cardinality(years)
            /\ Range(graphs[m]) = {[year |-> y, price |-> least(y)] : y \in years}

\* C10: the result list holds one label for each of the first 50 rows of the
\* filtered view, in their order, and the k-th label carries the index k.
C10_LabelsAreOneIndexed ==
    pc = "charts" =>
        /\ Len(texts) = Len(head(df.rows, HEAD_ROWS))
        /\ \A k \in DOMAIN texts : texts[k] = label(k, df.rows[k])

====
